---- MODULE Spec2Model ----
(***************************************************************************)
(* A model of the students REST API: the request handlers                  *)
(* (internal/http/handlers/students), the pagination resolver              *)
(* (internal/http/helpers), the response writers (internal/http/response)  *)
(* and the SQLite storage gateway (internal/storage/sqlite).               *)
(*                                                                         *)
(* Strings that the program parses or validates (query values, path ids,   *)
(* names, emails) are sequences of one-character strings; texts that the   *)
(* program only produces (error texts, messages) are TLA+ strings.         *)
(***************************************************************************)
EXTENDS Integers, Sequences, FiniteSets, TLC

VARIABLES
    students,   \* the rows of table students, in rowid order
    seq,        \* sqlite_sequence.seq of table students (AUTOINCREMENT high-water mark)
    req,        \* the request the last handler run served
    resp,       \* the response that run wrote
    params,     \* the PaginationParams that run resolved (NoParams when it resolved none)
    calls,      \* how often that run invoked each Storage method
    storeErr,   \* the error Storage returned to that run (NilError when none)
    issued,     \* history: the ids the INSERTs assigned, in order
    acked,      \* history: every 201 answer, as [id, name, email, age] of its request
    inflight,   \* the requests being served concurrently, each at its own step
    srv,        \* the process: main, the server goroutine, the listener and the error channel
    crawl,      \* history: the pages a client read one after the other since the table last changed
    hist        \* history: the students GetStudentByID returned and the last total_items reported

vars == <<students, seq, req, resp, params, calls, storeErr, issued, acked, inflight, srv, crawl, hist>>

-----------------------------------------------------------------------------
(* Bounds of the model.                                                    *)

\* rows the table may hold under Spec
MaxStudents == 2
\* requests served at the same time under SpecConc
MaxProcs == 2
\* requests in flight at once under SpecShutdown
MaxInflight == 2
\* rows the table may hold under SpecCrawl
MaxCrawlRows == 5
\* the largest limit a client reads page after page with under SpecCrawl
MaxCrawlLimit == 3
\* rows the table may hold under SpecHist
MaxHistRows == 2
\* rows the table may hold under SpecWrap
MaxWrapRows == 5
\* rows the table may hold under SpecConc
MaxConcRows == 3
\* rows the table may hold under SpecPage
MaxRows == 25
\* length of the query values drawn under SpecParse
MaxQLen == 3
\* length of the limit values drawn under SpecPage
MaxPageQLen == 2
\* length of the page values drawn under SpecPage
MaxPageNoLen == 1
\* length of the path ids drawn
MaxIdLen == 2

-----------------------------------------------------------------------------
(* Strings.                                                                *)

Range(s) == {s[i] : i \in 1..Len(s)}

StringsUpTo(chars, n) == UNION {[1..k -> chars] : k \in 0..n}

Digits == <<"0", "1", "2", "3", "4", "5", "6", "7", "8", "9">>

IsDigit(c) == \E i \in 1..Len(Digits) : Digits[i] = c

\* ch - '0'
DigitVal(c) == (CHOOSE i \in 1..Len(Digits) : Digits[i] = c) - 1

-----------------------------------------------------------------------------
(* strconv.Atoi, as ParsePaginationParams uses it.                         *)

\* strconv.IntSize: the width of Go's int. 32 on 386/arm, 64 on amd64; the
\* model takes 32, and the range-error branch is the same code on both.
IntSize == 32

MaxInt == (2 ^ (IntSize - 2) - 1) * 2 + 1

\* The digits' value, with over set once it exceeds MaxInt (ParseUint's cutoff).
RECURSIVE Accumulate(_, _)
Accumulate(ds, acc) ==
    IF Len(ds) = 0 THEN acc
    ELSE LET d == DigitVal(Head(ds))
         IN  IF acc.over \/ acc.n > (MaxInt - d) \div 10
             THEN Accumulate(Tail(ds), [over |-> TRUE, n |-> MaxInt])
             ELSE Accumulate(Tail(ds), [over |-> FALSE, n |-> acc.n * 10 + d])

\* IsMinInt(ds): the digits spell MaxInt + 1, which only a negative number may.
IsMinInt(ds) ==
    /\ Len(ds) > 0
    /\ IsDigit(ds[Len(ds)])
    /\ LET front == Accumulate(SubSeq(ds, 1, Len(ds) - 1), [over |-> FALSE, n |-> 0])
       IN  /\ ~front.over
           /\ front.n = MaxInt \div 10
           /\ DigitVal(ds[Len(ds)]) = (MaxInt % 10) + 1

Atoi(s) ==
    LET signed == Len(s) > 0 /\ s[1] \in {"-", "+"}
        neg    == signed /\ s[1] = "-"
        ds     == IF signed THEN Tail(s) ELSE s
    IN  IF Len(ds) = 0 \/ \E i \in 1..Len(ds) : ~IsDigit(ds[i])
        THEN [err |-> "syntax", n |-> 0]
        ELSE LET m == Accumulate(ds, [over |-> FALSE, n |-> 0])
             IN  IF neg /\ IsMinInt(ds) THEN [err |-> "nil", n |-> (0 - MaxInt) - 1]
                 ELSE IF m.over THEN [err |-> "range", n |-> IF neg THEN (0 - MaxInt) - 1 ELSE MaxInt]
                 ELSE [err |-> "nil", n |-> IF neg THEN 0 - m.n ELSE m.n]

-----------------------------------------------------------------------------
(* internal/types: the pagination constants and PaginationParams.          *)

DefaultPage == 1
DefaultLimit == 20
MaxLimit == 100
MinLimit == 1

NoParams == [Page |-> 0, Limit |-> 0]

-----------------------------------------------------------------------------
(* internal/http/helpers: ParsePaginationParams.                           *)

\* r.URL.Query().Get(key): "" when the key is absent.
QueryGet(query, key) == IF key \in DOMAIN query THEN query[key] ELSE <<>>

ResolvePageAcceptsZero(pageStr) ==
    LET p == Atoi(pageStr)
    IN  IF pageStr # <<>> /\ p.err = "nil" /\ p.n >= 0 THEN p.n ELSE DefaultPage

\* The page: the default unless the value parses and is positive.
ResolvePage(pageStr) ==
    LET p == Atoi(pageStr)
    IN  IF pageStr # <<>> /\ p.err = "nil" /\ p.n > 0 THEN p.n ELSE DefaultPage

ResolveLimitNoCap(limitStr) ==
    LET l == Atoi(limitStr)
    IN  IF limitStr # <<>> /\ l.err = "nil" /\ l.n > 0
        THEN IF l.n < MinLimit THEN MinLimit ELSE l.n
        ELSE DefaultLimit

ResolveLimitFallsToMin(limitStr) ==
    LET l      == Atoi(limitStr)
        capped == IF l.n > MaxLimit THEN MaxLimit ELSE l.n
    IN  IF limitStr # <<>> /\ l.err = "nil" /\ l.n > 0
        THEN IF capped < MinLimit THEN MinLimit ELSE capped
        ELSE MinLimit

ResolveLimitRaisesToMin(limitStr) ==
    LET l      == Atoi(limitStr)
        capped == IF l.n > MaxLimit THEN MaxLimit ELSE l.n
    IN  IF limitStr # <<>> /\ l.err = "nil"
        THEN IF capped < MinLimit THEN MinLimit ELSE capped
        ELSE DefaultLimit

\* The limit: the default unless the value parses and is positive, and then
\* the value brought into MinLimit..MaxLimit.
ResolveLimit(limitStr) ==
    LET l      == Atoi(limitStr)
        capped == IF l.n > MaxLimit THEN MaxLimit ELSE l.n
    IN  IF limitStr # <<>> /\ l.err = "nil" /\ l.n > 0
        THEN IF capped < MinLimit THEN MinLimit ELSE capped
        ELSE DefaultLimit

ParsePaginationParams(query) ==
    [Page  |-> ResolvePage(QueryGet(query, "page")),
     Limit |-> ResolveLimit(QueryGet(query, "limit"))]

-----------------------------------------------------------------------------
(* internal/types: Student, and the request bodies the Create handler      *)
(* decodes.                                                                *)

\* The zero Student json.Decode starts from.
ZeroStudent == [ID |-> 0, Name |-> <<>>, Email |-> <<>>, Age |-> 0]

\* A JSON object's member is <<>> when the key is absent and <<v>> when it is
\* there with value v. Unknown keys are ignored by Decode and left out here.
Opt(S) == {<<>>} \cup {<<v>> : v \in S}

ObjectBodies(ids, names, emails, ages) ==
    [kind : {"object"}, id : Opt(ids), name : Opt(names), email : Opt(emails), age : Opt(ages)]

NoFields == [id |-> <<>>, name |-> <<>>, email |-> <<>>, age |-> <<>>]

\* "empty": no JSON value before the end of the body; "malformed": not JSON, or
\* cut short; "mistyped": JSON whose member has the wrong type for its field.
BrokenBodies == {[kind |-> k] @@ NoFields : k \in {"empty", "malformed", "mistyped"}}

\* json.NewDecoder(r.Body).Decode(&student): the error and the struct after it.
Decode(body) ==
    CASE body.kind = "empty"     -> [err |-> "EOF", student |-> ZeroStudent]
      [] body.kind = "malformed" -> [err |-> "unexpected EOF", student |-> ZeroStudent]
      [] body.kind = "mistyped"  ->
            [err |-> "json: cannot unmarshal string into Go struct field Student.age of type int",
             student |-> ZeroStudent]
      [] OTHER ->
            [err |-> "nil",
             student |-> [ID    |-> IF body.id = <<>> THEN 0 ELSE body.id[1],
                          Name  |-> IF body.name = <<>> THEN <<>> ELSE body.name[1],
                          Email |-> IF body.email = <<>> THEN <<>> ELSE body.email[1],
                          Age   |-> IF body.age = <<>> THEN 0 ELSE body.age[1]]]

-----------------------------------------------------------------------------
(* The validate tags of Student and validator.New().Struct(student).       *)

MinAge == 18
MaxAge == 100

\* The tagged fields in declaration order (ID carries no validate tag).
StudentTags ==
    << [field |-> "Name",  tags |-> << [tag |-> "required", param |-> ""] >>],
       [field |-> "Email", tags |-> << [tag |-> "required", param |-> ""],
                                       [tag |-> "email",    param |-> ""] >>],
       [field |-> "Age",   tags |-> << [tag |-> "required", param |-> ""],
                                       [tag |-> "min",      param |-> ToString(MinAge)],
                                       [tag |-> "max",      param |-> ToString(MaxAge)] >>] >>

\* The number a min/max tag's parameter spells.
ParamInt(param) == CHOOSE n \in {MinAge, MaxAge} : ToString(n) = param

IsAlnum(c) == c \notin {"@", ".", " "}

\* The local part of the validator's email pattern: atoms joined by single dots.
IsEmailLocal(s) ==
    /\ Len(s) > 0
    /\ \A i \in 1..Len(s) : s[i] = "." \/ IsAlnum(s[i])
    /\ s[1] # "." /\ s[Len(s)] # "."
    /\ \A i \in 1..(Len(s) - 1) : ~(s[i] = "." /\ s[i + 1] = ".")

\* Its domain part: one or more labels each followed by a dot, a last label,
\* and an optional final dot; a label starts and ends with a letter or digit.
IsEmailDomain(s) ==
    LET t == IF Len(s) > 0 /\ s[Len(s)] = "." THEN SubSeq(s, 1, Len(s) - 1) ELSE s
    IN  /\ Len(t) > 0
        /\ \A i \in 1..Len(t) : t[i] = "." \/ IsAlnum(t[i])
        /\ IsAlnum(t[1]) /\ IsAlnum(t[Len(t)])
        /\ \E i \in 2..(Len(t) - 1) : t[i] = "." /\ IsAlnum(t[i - 1]) /\ IsAlnum(t[i + 1])

IsEmailHasAt(s) == \E k \in 1..Len(s) : s[k] = "@"

\* The "email" tag: the validator's pattern, over strings without quotes.
IsEmail(s) ==
    \E k \in 1..Len(s) :
        /\ s[k] = "@"
        /\ IsEmailLocal(SubSeq(s, 1, k - 1))
        /\ IsEmailDomain(SubSeq(s, k + 1, Len(s)))

TagHoldsStrictMin(field, t, v) ==
    CASE t.tag = "required" -> v # ZeroStudent[field]
      [] t.tag = "email"    -> IsEmail(v)
      [] t.tag = "min"      -> v > ParamInt(t.param)
      [] t.tag = "max"      -> v <= ParamInt(t.param)

\* Whether field `field` with value v satisfies tag t.
TagHolds(field, t, v) ==
    CASE t.tag = "required" -> v # ZeroStudent[field]
      [] t.tag = "email"    -> IsEmail(v)
      [] t.tag = "min"      -> v >= ParamInt(t.param)
      [] t.tag = "max"      -> v <= ParamInt(t.param)

\* The tags of one field that fail, in tag order; the validator reports the first.
FailingTags(f, v) == SelectSeq(f.tags, LAMBDA t : ~TagHolds(f.field, t, v))

FieldErrorsLastTag(student, fields) ==
    LET failing(i) == FailingTags(fields[i], student[fields[i].field])
        one(i) == IF failing(i) = <<>> THEN <<>>
                  ELSE << [Field |-> fields[i].field,
                           ActualTag |-> failing(i)[Len(failing(i))].tag,
                           Param |-> failing(i)[Len(failing(i))].param] >>
        join[i \in 0..Len(fields)] == IF i = 0 THEN <<>> ELSE join[i - 1] \o one(i)
    IN  join[Len(fields)]

\* validator.ValidationErrors: one FieldError per failing field, in field order.
FieldErrors(student, fields) ==
    LET failing(i) == FailingTags(fields[i], student[fields[i].field])
        one(i) == IF failing(i) = <<>> THEN <<>>
                  ELSE << [Field |-> fields[i].field,
                           ActualTag |-> failing(i)[1].tag,
                           Param |-> failing(i)[1].param] >>
        join[i \in 0..Len(fields)] == IF i = 0 THEN <<>> ELSE join[i - 1] \o one(i)
    IN  join[Len(fields)]

ValidateStructSkipped(student) == FieldErrors(student, <<>>)

ValidateStruct(student) == FieldErrors(student, StudentTags)

-----------------------------------------------------------------------------
(* internal/storage: the sentinel errors. An error is its chain of         *)
(* sentinels (what errors.Is finds) and its text (what Error() returns).   *)

NilError == [nil |-> TRUE, is |-> {}, text |-> ""]

ErrNotFound == [nil |-> FALSE, is |-> {"ErrNotFound"}, text |-> "student not found"]

ErrDuplicate == [nil |-> FALSE, is |-> {"ErrDuplicate"}, text |-> "student already exists"]

ErrInvalidData == [nil |-> FALSE, is |-> {"ErrInvalidData"}, text |-> "invalid student data"]

ErrDatabase == [nil |-> FALSE, is |-> {"ErrDatabase"}, text |-> "database error"]

\* An error of database/sql or of the driver: no sentinel of this package.
DriverError(detail) == [nil |-> FALSE, is |-> {}, text |-> detail]

\* fmt.Errorf("%w: %v", sentinel, err)
Wrap(sentinel, err) ==
    [nil |-> FALSE, is |-> sentinel.is, text |-> sentinel.text \o ": " \o err.text]

ErrorsIs(err, sentinel) == ~err.nil /\ sentinel.is \subseteq err.is

-----------------------------------------------------------------------------
(* internal/storage/sqlite: the students table and the gateway methods.    *)
(* A method is a function of the table and of the fault, if any, that the  *)
(* database raises in one of its steps.                                    *)

Max(a, b) == IF a >= b THEN a ELSE b

MaxRowid(tbl) == IF tbl = <<>> THEN 0 ELSE Max(tbl[Len(tbl)].id, 0)

NextRowidReusesLast(tbl, sq) == Max(Max(sq, MaxRowid(tbl)), 1)

\* id INTEGER PRIMARY KEY AUTOINCREMENT: one more than the largest rowid the
\* table ever held.
NextRowid(tbl, sq) == Max(sq, MaxRowid(tbl)) + 1

\* INSERT INTO students (name, email, age) VALUES (?, ?, ?)
InsertColumns == <<"name", "email", "age">>

InsertRowNameEmailSwapped(id, args) ==
    [id |-> id] @@ [c \in Range(InsertColumns) |->
                        LET i == CHOOSE i \in 1..Len(InsertColumns) : InsertColumns[i] = c
                        IN  args[IF i <= 2 THEN 3 - i ELSE i]]

\* The row an INSERT of args stores: each placeholder bound to its column.
InsertRow(id, args) ==
    [id |-> id] @@ [c \in Range(InsertColumns) |->
                        args[CHOOSE i \in 1..Len(InsertColumns) : InsertColumns[i] = c]]

CreateFaults == {"none", "prepare", "exec", "lastid"}

CreateStudentReplacesSameEmail(tbl, sq, name, email, age, fault) ==
    LET id == NextRowid(tbl, sq)
        kept == SelectSeq(tbl, LAMBDA row : row.email # email)
        stored == Append(kept, InsertRow(id, <<name, email, age>>))
    IN  IF fault \in {"prepare", "exec"}
        THEN [id |-> 0, err |-> DriverError("database is locked"), students |-> tbl, seq |-> sq]
        ELSE IF fault = "lastid"
        THEN [id |-> 0, err |-> DriverError("LastInsertId is not supported"),
              students |-> stored, seq |-> id]
        ELSE [id |-> id, err |-> NilError, students |-> stored, seq |-> id]

CreateStudentExecTwice(tbl, sq, name, email, age, fault) ==
    LET id == NextRowid(tbl, sq)
        once == Append(tbl, InsertRow(id, <<name, email, age>>))
        twice == Append(once, InsertRow(id + 1, <<name, email, age>>))
    IN  IF fault \in {"prepare", "exec"}
        THEN [id |-> 0, err |-> DriverError("database is locked"), students |-> tbl, seq |-> sq]
        ELSE IF fault = "lastid"
        THEN [id |-> 0, err |-> DriverError("LastInsertId is not supported"),
              students |-> twice, seq |-> id + 1]
        ELSE [id |-> id + 1, err |-> NilError, students |-> twice, seq |-> id + 1]

CreateStudentReturnsExisting(tbl, sq, name, email, age, fault) ==
    LET same == SelectSeq(tbl, LAMBDA row : row.name = name /\ row.email = email /\ row.age = age)
        id == NextRowid(tbl, sq)
        stored == Append(tbl, InsertRow(id, <<name, email, age>>))
    IN  IF fault \in {"prepare", "exec"}
        THEN [id |-> 0, err |-> DriverError("database is locked"), students |-> tbl, seq |-> sq]
        ELSE IF same # <<>>
        THEN [id |-> same[1].id, err |-> NilError, students |-> tbl, seq |-> sq]
        ELSE IF fault = "lastid"
        THEN [id |-> 0, err |-> DriverError("LastInsertId is not supported"),
              students |-> stored, seq |-> id]
        ELSE [id |-> id, err |-> NilError, students |-> stored, seq |-> id]

CreateStudent(tbl, sq, name, email, age, fault) ==
    IF fault = "prepare"
    THEN [id |-> 0, err |-> DriverError("prepare: database is locked"), students |-> tbl, seq |-> sq]
    ELSE IF fault = "exec"
    THEN [id |-> 0, err |-> DriverError("exec: disk I/O error"), students |-> tbl, seq |-> sq]
    ELSE LET id == NextRowid(tbl, sq)
             stored == Append(tbl, InsertRow(id, <<name, email, age>>))
         IN  IF fault = "lastid"
             THEN [id |-> 0, err |-> DriverError("LastInsertId is not supported"),
                   students |-> stored, seq |-> id]
             ELSE [id |-> id, err |-> NilError, students |-> stored, seq |-> id]

\* SELECT id, name, email, age FROM students WHERE id = ?
SelectColumns == <<"id", "name", "email", "age">>

\* rows.Scan(&student.ID, &student.Name, &student.Email, &student.Age)
ScanStudent(row) ==
    [ID    |-> row[SelectColumns[1]],
     Name  |-> row[SelectColumns[2]],
     Email |-> row[SelectColumns[3]],
     Age   |-> row[SelectColumns[4]]]

GetFaults == {"none", "prepare", "scan"}

GetStudentNoRowsIsDatabase(tbl, id, fault) ==
    LET found == SelectSeq(tbl, LAMBDA row : row.id = id)
    IN  IF fault # "none" \/ found = <<>>
        THEN [student |-> ZeroStudent, err |-> Wrap(ErrDatabase, DriverError("sql: no rows in result set"))]
        ELSE [student |-> ScanStudent(found[1]), err |-> NilError]

GetStudentScanErrorIsNotFound(tbl, id, fault) ==
    LET found == SelectSeq(tbl, LAMBDA row : row.id = id)
    IN  IF fault = "prepare"
        THEN [student |-> ZeroStudent, err |-> Wrap(ErrDatabase, DriverError("prepare: database is locked"))]
        ELSE IF fault = "scan" \/ found = <<>>
        THEN [student |-> ZeroStudent, err |-> ErrNotFound]
        ELSE [student |-> ScanStudent(found[1]), err |-> NilError]

GetStudent(tbl, id, fault) ==
    LET found == SelectSeq(tbl, LAMBDA row : row.id = id)
    IN  IF fault = "prepare"
        THEN [student |-> ZeroStudent, err |-> Wrap(ErrDatabase, DriverError("prepare: database is locked"))]
        ELSE IF fault = "scan"
        THEN [student |-> ZeroStudent, err |-> Wrap(ErrDatabase, DriverError("scan: disk I/O error"))]
        ELSE IF found = <<>>
        THEN [student |-> ZeroStudent, err |-> ErrNotFound]
        ELSE [student |-> ScanStudent(found[1]), err |-> NilError]

-----------------------------------------------------------------------------
(* internal/http/response: WriteJson, WriteError, WriteValidationErrors.   *)

StatusError == "Error"

\* json.Encode of an ErrResponse: message carries omitempty.
EncodeErrResponse(e) ==
    IF e.Message = ""
    THEN [error |-> e.Error, status |-> e.Status]
    ELSE [error |-> e.Error, status |-> e.Status, message |-> e.Message]

\* json.Encode of a Student.
EncodeStudent(s) == [id |-> s.ID, name |-> s.Name, email |-> s.Email, age |-> s.Age]

WriteJson(status, data) == [status |-> status, body |-> data]

WriteErrorDropsMessage(status, err, message) ==
    WriteJson(status, EncodeErrResponse([Error |-> err, Status |-> StatusError, Message |-> ""]))

WriteError(status, err, message) ==
    WriteJson(status, EncodeErrResponse([Error |-> err, Status |-> StatusError, Message |-> message]))

\* The text WriteValidationErrors gives one FieldError.
ErrMsg(e) ==
    CASE e.ActualTag = "required" -> e.Field \o " is required"
      [] e.ActualTag = "uuid"     -> e.Field \o " is not a valid UUID"
      [] e.ActualTag = "min"      -> e.Field \o " must be greater than " \o e.Param
      [] e.ActualTag = "max"      -> e.Field \o " must be less than " \o e.Param
      [] e.ActualTag = "email"    -> e.Field \o " is not a valid email"
      [] OTHER                    -> e.Field \o " is not valid for tag " \o e.ActualTag

\* strings.Join(elems, sep)
RECURSIVE Join(_, _)
Join(elems, sep) ==
    IF elems = <<>> THEN ""
    ELSE IF Len(elems) = 1 THEN elems[1]
    ELSE elems[1] \o sep \o Join(Tail(elems), sep)

WriteValidationErrors(status, errors) ==
    WriteJson(status,
              EncodeErrResponse([Error   |-> "validation errors",
                                 Status  |-> StatusError,
                                 Message |-> Join([i \in 1..Len(errors) |-> ErrMsg(errors[i])], "; ")]))

-----------------------------------------------------------------------------
(* The paginated list: Storage.GetStudentsList(offset, limit),             *)
(* Storage.GetStudentsCount() and the handler that serves GET /students.   *)

\* The rows in ascending id order.
RECURSIVE SortById(_)
SortById(rows) ==
    IF rows = {} THEN <<>>
    ELSE LET least == CHOOSE r \in rows : \A o \in rows : r.id <= o.id
         IN  <<least>> \o SortById(rows \ {least})

ListFaults == {"none", "list", "count"}

GetStudentsListEmptyIsNotFound(tbl, offset, limit, fault) ==
    IF fault = "list"
    THEN [students |-> <<>>, err |-> Wrap(ErrDatabase, DriverError("query: disk I/O error"))]
    ELSE LET ordered == SortById(Range(tbl))
             skip    == IF offset < 0 THEN 0
                        ELSE IF offset > Len(ordered) THEN Len(ordered) ELSE offset
             first   == skip + 1
             last    == IF limit < 0 THEN Len(ordered) ELSE skip + limit
             page    == SubSeq(ordered, first, IF last > Len(ordered) THEN Len(ordered) ELSE last)
         IN  IF page = <<>>
             THEN [students |-> <<>>, err |-> ErrNotFound]
             ELSE [students |-> [i \in 1..Len(page) |-> ScanStudent(page[i])], err |-> NilError]

\* SELECT id, name, email, age FROM students ORDER BY id LIMIT ? OFFSET ?
GetStudentsList(tbl, offset, limit, fault) ==
    IF fault = "list"
    THEN [students |-> <<>>, err |-> Wrap(ErrDatabase, DriverError("query: disk I/O error"))]
    ELSE LET ordered == SortById(Range(tbl))
             skip    == IF offset < 0 THEN 0
                        ELSE IF offset > Len(ordered) THEN Len(ordered) ELSE offset
             first   == skip + 1
             last    == IF limit < 0 THEN Len(ordered) ELSE skip + limit
             page    == SubSeq(ordered, first, IF last > Len(ordered) THEN Len(ordered) ELSE last)
         IN  [students |-> [i \in 1..Len(page) |-> ScanStudent(page[i])], err |-> NilError]

\* SELECT COUNT(*) FROM students
GetStudentsCount(tbl, fault) ==
    IF fault = "count"
    THEN [count |-> 0, err |-> Wrap(ErrDatabase, DriverError("query: disk I/O error"))]
    ELSE [count |-> Len(tbl), err |-> NilError]

TotalPagesRoundedDown(totalItems, limit) == totalItems \div limit

\* ceil(totalItems / limit)
TotalPages(totalItems, limit) == (totalItems + limit - 1) \div limit

\* a * b as Go's int computes it: the low IntSize bits of the product, read
\* as a signed number (0 <= a <= MaxInt, 0 <= b < 2^(IntSize \div 2)).
WrapMul(a, b) ==
    LET half == 2 ^ (IntSize \div 2)
        low  == (a % half) * b
        high == ((a \div half) * b + (low \div half)) % half
    IN  IF high >= half \div 2
        THEN (high - half) * half + (low % half)
        ELSE high * half + (low % half)

OffsetByPage(p) == WrapMul(p.Page, p.Limit)

\* offset := (params.Page - 1) * params.Limit
Offset(p) == WrapMul(p.Page - 1, p.Limit)

PaginatedResponseNextWhenFull(data, p, totalItems) ==
    [data        |-> [i \in 1..Len(data) |-> EncodeStudent(data[i])],
     page        |-> p.Page,
     limit       |-> p.Limit,
     total_items |-> totalItems,
     total_pages |-> TotalPages(totalItems, p.Limit),
     has_next    |-> Len(data) = p.Limit,
     has_prev    |-> p.Page > 1]

PaginatedResponse(data, p, totalItems) ==
    [data        |-> [i \in 1..Len(data) |-> EncodeStudent(data[i])],
     page        |-> p.Page,
     limit       |-> p.Limit,
     total_items |-> totalItems,
     total_pages |-> TotalPages(totalItems, p.Limit),
     has_next    |-> p.Page < TotalPages(totalItems, p.Limit),
     has_prev    |-> p.Page > 1]

-----------------------------------------------------------------------------
(* internal/http/handlers/students: one action per handler, from the       *)
(* request to the response written.                                        *)

NoCalls == [create |-> 0, get |-> 0, list |-> 0, count |-> 0]

NoRequest == [op |-> "none", fault |-> "none"]

NoResponse == [status |-> 0, body |-> [id |-> 0]]

\* strconv.ParseInt(id, 10, 64): the syntax Atoi accepts; a range error takes
\* 19 digits or more, beyond the ids drawn.
ParseInt(s) ==
    LET signed == Len(s) > 0 /\ s[1] \in {"-", "+"}
        ds     == IF signed THEN Tail(s) ELSE s
        val[i \in 0..Len(ds)] == IF i = 0 THEN 0 ELSE val[i - 1] * 10 + DigitVal(ds[i])
    IN  IF Len(ds) = 0 \/ \E i \in 1..Len(ds) : ~IsDigit(ds[i])
        THEN [err |-> "strconv.ParseInt: parsing: invalid syntax", n |-> 0]
        ELSE [err |-> "nil", n |-> IF signed /\ s[1] = "-" THEN 0 - val[Len(ds)] ELSE val[Len(ds)]]

NewStudentHandlerKeepsBodyId(body, fault, maxRows) ==
    LET d    == Decode(body)
        errs == ValidateStruct(d.student)
        r    == CreateStudent(students, seq, d.student.Name, d.student.Email, d.student.Age, fault)
    IN  /\ req = NoRequest
        /\ req' = [op |-> "create", body |-> body, fault |-> fault]
        /\ params' = NoParams
        /\ IF d.err = "EOF"
           THEN /\ fault = "none"
                /\ resp' = WriteError(400, "invalid request body", "request body is empty")
                /\ calls' = NoCalls
                /\ storeErr' = NilError
                /\ UNCHANGED <<students, seq, issued, acked>>
           ELSE IF d.err # "nil"
           THEN /\ fault = "none"
                /\ resp' = WriteError(400, "invalid request body", d.err)
                /\ calls' = NoCalls
                /\ storeErr' = NilError
                /\ UNCHANGED <<students, seq, issued, acked>>
           ELSE IF errs # <<>>
           THEN /\ fault = "none"
                /\ resp' = WriteValidationErrors(400, errs)
                /\ calls' = NoCalls
                /\ storeErr' = NilError
                /\ UNCHANGED <<students, seq, issued, acked>>
           ELSE /\ Len(students) < maxRows
                /\ calls' = [NoCalls EXCEPT !.create = 1]
                /\ storeErr' = r.err
                /\ students' = r.students
                /\ seq' = r.seq
                /\ issued' = IF Len(r.students) > Len(students) THEN Append(issued, r.seq) ELSE issued
                /\ IF ~r.err.nil
                   THEN /\ resp' = WriteError(500, "error creating student", r.err.text)
                        /\ acked' = acked
                   ELSE /\ resp' = WriteJson(201, [id |-> d.student.ID])
                        /\ acked' = acked \cup {[id |-> r.id, name |-> d.student.Name,
                                                 email |-> d.student.Email, age |-> d.student.Age]}

\* POST /students
NewStudentHandler(body, fault, maxRows) ==
    LET d    == Decode(body)
        errs == ValidateStruct(d.student)
        r    == CreateStudent(students, seq, d.student.Name, d.student.Email, d.student.Age, fault)
    IN  /\ req = NoRequest
        /\ req' = [op |-> "create", body |-> body, fault |-> fault]
        /\ params' = NoParams
        /\ IF d.err = "EOF"
           THEN /\ fault = "none"
                /\ resp' = WriteError(400, "invalid request body", "request body is empty")
                /\ calls' = NoCalls
                /\ storeErr' = NilError
                /\ UNCHANGED <<students, seq, issued, acked>>
           ELSE IF d.err # "nil"
           THEN /\ fault = "none"
                /\ resp' = WriteError(400, "invalid request body", d.err)
                /\ calls' = NoCalls
                /\ storeErr' = NilError
                /\ UNCHANGED <<students, seq, issued, acked>>
           ELSE IF errs # <<>>
           THEN /\ fault = "none"
                /\ resp' = WriteValidationErrors(400, errs)
                /\ calls' = NoCalls
                /\ storeErr' = NilError
                /\ UNCHANGED <<students, seq, issued, acked>>
           ELSE /\ Len(students) < maxRows
                /\ calls' = [NoCalls EXCEPT !.create = 1]
                /\ storeErr' = r.err
                /\ students' = r.students
                /\ seq' = r.seq
                /\ issued' = IF Len(r.students) > Len(students) THEN Append(issued, r.seq) ELSE issued
                /\ IF ~r.err.nil
                   THEN /\ resp' = WriteError(500, "error creating student", r.err.text)
                        /\ acked' = acked
                   ELSE /\ resp' = WriteJson(201, [id |-> r.id])
                        /\ acked' = acked \cup {[id |-> r.id, name |-> d.student.Name,
                                                 email |-> d.student.Email, age |-> d.student.Age]}

\* GET /students/{id}
GetStudentHandler(id, fault) ==
    LET p == ParseInt(id)
        r == GetStudent(students, p.n, fault)
    IN  /\ req = NoRequest
        /\ req' = [op |-> "get", id |-> id, fault |-> fault]
        /\ params' = NoParams
        /\ UNCHANGED <<students, seq, issued, acked>>
        /\ IF p.err # "nil"
           THEN /\ fault = "none"
                /\ resp' = WriteError(400, "invalid ID", p.err)
                /\ calls' = NoCalls
                /\ storeErr' = NilError
           ELSE /\ calls' = [NoCalls EXCEPT !.get = 1]
                /\ storeErr' = r.err
                /\ resp' = IF ErrorsIs(r.err, ErrNotFound)
                           THEN WriteError(404, "student not found", r.err.text)
                           ELSE IF ~r.err.nil
                           THEN WriteError(500, "internal server error", r.err.text)
                           ELSE WriteJson(200, EncodeStudent(r.student))

\* GET /students?page=&limit=
ListStudentsHandler(query, fault) ==
    LET p == ParsePaginationParams(query)
        l == GetStudentsList(students, Offset(p), p.Limit, fault)
        c == GetStudentsCount(students, fault)
    IN  /\ req = NoRequest
        /\ req' = [op |-> "list", query |-> query, fault |-> fault]
        /\ params' = p
        /\ UNCHANGED <<students, seq, issued, acked>>
        /\ IF ~l.err.nil
           THEN /\ resp' = WriteError(500, "internal server error", l.err.text)
                /\ calls' = [NoCalls EXCEPT !.list = 1]
                /\ storeErr' = l.err
           ELSE IF ~c.err.nil
           THEN /\ resp' = WriteError(500, "internal server error", c.err.text)
                /\ calls' = [NoCalls EXCEPT !.list = 1, !.count = 1]
                /\ storeErr' = c.err
           ELSE /\ resp' = WriteJson(200, PaginatedResponse(l.students, p, c.count))
                /\ calls' = [NoCalls EXCEPT !.list = 1, !.count = 1]
                /\ storeErr' = NilError

\* The resolver alone, on one query.
ResolveOnly(query) ==
    /\ req = NoRequest
    /\ req' = [op |-> "resolve", query |-> query, fault |-> "none"]
    /\ params' = ParsePaginationParams(query)
    /\ UNCHANGED <<students, seq, resp, calls, storeErr, issued, acked>>

\* The request is over: what the handler held for it is gone.
EndRequest ==
    /\ req # NoRequest
    /\ req' = NoRequest
    /\ resp' = NoResponse
    /\ params' = NoParams
    /\ calls' = NoCalls
    /\ storeErr' = NilError
    /\ UNCHANGED <<students, seq, issued, acked>>

-----------------------------------------------------------------------------
(* The handlers run concurrently: net/http serves every request in its own *)
(* goroutine, all on the one *sql.DB of the Sqlite gateway. A request is   *)
(* at one of the handler's calls; each call into database/sql is one step, *)
(* and SQLite runs each statement on its own (writers are serialised).     *)

Procs == 1..MaxProcs

\* What the handlers run one at a time leave alone.
others == <<inflight, srv, crawl, hist>>

\* What the one-request-at-a-time handlers keep, untouched by concurrent steps.
sequential == <<req, resp, params, calls, storeErr>>

Idle == [op |-> "none", pc |-> "idle"]

\* stmt.Exec of the INSERT: the row stored and the sql.Result of this Exec,
\* which the driver fills with the rowid of the row it stored.
ExecInsert(tbl, sq, name, email, age) ==
    LET id == NextRowid(tbl, sq)
    IN  [students |-> Append(tbl, InsertRow(id, <<name, email, age>>)),
         seq      |-> id,
         result   |-> [lastInsertId |-> id, rowsAffected |-> 1]]

LastInsertIdOfTable(result, tbl) == MaxRowid(tbl)

\* result.LastInsertId(): the id kept in the Result, whatever is stored since.
LastInsertId(result, tbl) == result.lastInsertId

\* POST /students arrives: decoded and validated, the handler is about to
\* call CreateStudent.
CreateArrives(p, body) ==
    LET d == Decode(body)
    IN  /\ inflight[p] = Idle
        /\ d.err = "nil" /\ ValidateStruct(d.student) = <<>>
        /\ Len(students) + Cardinality({q \in Procs : inflight[q].pc \in {"prepare", "exec"}})
               < MaxConcRows
        /\ inflight' = [inflight EXCEPT ![p] =
               [op |-> "create", pc |-> "prepare", student |-> d.student]]
        /\ UNCHANGED <<students, seq, issued, acked>>

\* s.Db.Prepare(INSERT ...)
CreatePrepares(p) ==
    /\ inflight[p].op = "create" /\ inflight[p].pc = "prepare"
    /\ inflight' = [inflight EXCEPT ![p].pc = "exec"]
    /\ UNCHANGED <<students, seq, issued, acked>>

\* stmt.Exec(name, email, age)
CreateExecs(p) ==
    LET st == inflight[p].student
        r  == ExecInsert(students, seq, st.Name, st.Email, st.Age)
    IN  /\ inflight[p].op = "create" /\ inflight[p].pc = "exec"
        /\ students' = r.students
        /\ seq' = r.seq
        /\ issued' = Append(issued, r.seq)
        /\ inflight' = [inflight EXCEPT ![p] =
               [op |-> "create", pc |-> "lastid", student |-> st, result |-> r.result,
                own |-> r.seq]]
        /\ UNCHANGED acked

\* result.LastInsertId(), and CreateStudent returns the id
CreateReadsId(p) ==
    /\ inflight[p].op = "create" /\ inflight[p].pc = "lastid"
    /\ inflight' = [inflight EXCEPT ![p] =
           [op |-> "create", pc |-> "respond", student |-> inflight[p].student,
            own |-> inflight[p].own,
            id |-> LastInsertId(inflight[p].result, students)]]
    /\ UNCHANGED <<students, seq, issued, acked>>

\* student.ID = id; WriteJson(201, {"id": student.ID})
CreateResponds(p) ==
    LET st == [inflight[p].student EXCEPT !.ID = inflight[p].id]
    IN  /\ inflight[p].op = "create" /\ inflight[p].pc = "respond"
        /\ inflight' = [inflight EXCEPT ![p] =
               [op |-> "create", pc |-> "done", student |-> inflight[p].student,
                own |-> inflight[p].own,
                resp |-> WriteJson(201, [id |-> st.ID])]]
        /\ acked' = acked \cup {[id |-> st.ID, name |-> st.Name, email |-> st.Email, age |-> st.Age]}
        /\ UNCHANGED <<students, seq, issued>>

ListStepsCountFirst == <<"count", "list">>

\* The two storage calls of the list handler, in the order it makes them.
ListSteps == <<"list", "count">>

\* The call the list handler makes after the call pc.
AfterCall(pc) == IF pc = ListSteps[1] THEN ListSteps[2] ELSE "respond"

\* GET /students arrives: the params are resolved and the handler is about
\* to make its first storage call.
ListArrives(p, query) ==
    /\ inflight[p] = Idle
    /\ inflight' = [inflight EXCEPT ![p] =
           [op |-> "list", pc |-> ListSteps[1], params |-> ParsePaginationParams(query),
            data |-> <<>>, count |-> 0, atList |-> 0, atCount |-> 0]]
    /\ UNCHANGED <<students, seq, issued, acked>>

\* store.GetStudentsList(offset, limit), on the table as it is now
ListReads(p) ==
    LET f == inflight[p]
        l == GetStudentsList(students, Offset(f.params), f.params.Limit, "none")
    IN  /\ f.op = "list" /\ f.pc = "list"
        /\ inflight' = [inflight EXCEPT ![p] =
               [f EXCEPT !.pc = AfterCall("list"), !.data = l.students,
                         !.atList = Len(students)]]
        /\ UNCHANGED <<students, seq, issued, acked>>

\* store.GetStudentsCount(), on the table as it is now
ListCounts(p) ==
    LET f == inflight[p]
        c == GetStudentsCount(students, "none")
    IN  /\ f.op = "list" /\ f.pc = "count"
        /\ inflight' = [inflight EXCEPT ![p] =
               [f EXCEPT !.pc = AfterCall("count"), !.count = c.count,
                         !.atCount = Len(students)]]
        /\ UNCHANGED <<students, seq, issued, acked>>

\* WriteJson(200, PaginatedResponse{...})
ListResponds(p) ==
    LET f == inflight[p]
    IN  /\ f.op = "list" /\ f.pc = "respond"
        /\ inflight' = [inflight EXCEPT ![p] =
               [op |-> "list", pc |-> "done", params |-> f.params,
                atList |-> f.atList, atCount |-> f.atCount,
                resp |-> WriteJson(200, PaginatedResponse(f.data, f.params, f.count))]]
        /\ UNCHANGED <<students, seq, issued, acked>>

\* The response is sent and the goroutine ends.
RequestEnds(p) ==
    /\ inflight[p].pc = "done"
    /\ inflight' = [inflight EXCEPT ![p] = Idle]
    /\ UNCHANGED <<students, seq, issued, acked>>

-----------------------------------------------------------------------------
(* Histories kept for the claims about several requests.                   *)

NoCrawl == [limit |-> 0, next |-> 1, data |-> <<>>]

NoHistory == [served |-> {}, total |-> 0]

\* A Get was answered: a student served for the first time is kept, with the
\* number of rows the table held then.
ServedAfter(answer) ==
    IF answer.status = 200 /\ \A s \in hist.served : s.student.id # answer.body.id
    THEN [hist EXCEPT !.served = @ \cup {[student |-> answer.body, rows |-> Len(students)]}]
    ELSE hist

\* A list was answered: the total_items it reported is kept.
ReportedAfter(answer) ==
    IF answer.status = 200 THEN [hist EXCEPT !.total = answer.body.total_items] ELSE hist

\* The client has read one more page: the page asked for next and the data
\* of the pages read so far, one after the other.
CrawlAfter(limit, page, answer) ==
    [limit |-> limit, next |-> page + 1, data |-> crawl.data \o answer.body.data]

-----------------------------------------------------------------------------
(* cmd/students-api: main, from signal.NotifyContext to the end.           *)

\* make(chan error, 1)
ServerErrorsCap == 1

\* main has started the server goroutine and waits in its select; the
\* goroutine has not called ListenAndServe yet.
ServerStarts ==
    [main         |-> "select",     \* select, shutdown (inside server.Shutdown), exited, fatal
     gor          |-> "start",      \* start, serving, returned, sending, done
     err          |-> "nil",        \* what ListenAndServe returned
     listener     |-> "none",       \* none, open, closed
     inShutdown   |-> FALSE,        \* server.Shutdown was called
     signal       |-> FALSE,        \* ctx.Done() is closed
     serverErrors |-> <<>>,         \* the channel's buffer
     timer        |-> "off",        \* shutdownCtx: off, running, expired
     closed       |-> FALSE,        \* server.Close() was called
     fatal        |-> "nil",        \* the error log.Fatalf reported
     active       |-> 0,            \* requests being served
     drained      |-> 0,            \* history: requests completed while Shutdown waited
     cut          |-> 0]            \* history: requests cut off unfinished

\* Everything but the process itself.
serving == <<students, seq, req, resp, params, calls, storeErr, issued, acked, inflight, crawl, hist>>

Alive == srv.main \in {"select", "shutdown"}

IsServerErrorAnyError(err) == err # "nil"

\* err != nil && err != http.ErrServerClosed
IsServerError(err) == err # "nil" /\ err # "ErrServerClosed"

\* The goroutine calls server.ListenAndServe(): ErrServerClosed at once when
\* Shutdown was called before, else the listener opens or (bound = FALSE)
\* cannot be bound.
ListenAndServe(bound) ==
    /\ Alive /\ srv.gor = "start"
    /\ srv' = IF srv.inShutdown
              THEN [srv EXCEPT !.gor = "returned", !.err = "ErrServerClosed"]
              ELSE IF bound
              THEN [srv EXCEPT !.gor = "serving", !.listener = "open"]
              ELSE [srv EXCEPT !.gor = "returned", !.err = "listen tcp: address already in use"]
    /\ UNCHANGED serving

\* Serve accepts a connection and starts serving its request.
AcceptRequest ==
    /\ Alive /\ srv.gor = "serving" /\ srv.listener = "open" /\ ~srv.inShutdown
    /\ srv.active < MaxInflight
    /\ srv' = [srv EXCEPT !.active = @ + 1]
    /\ UNCHANGED serving

\* A handler returns and its response is written.
RequestCompletes ==
    /\ Alive /\ srv.active > 0 /\ ~srv.closed
    /\ srv' = [srv EXCEPT !.active = @ - 1,
                           !.drained = IF srv.main = "shutdown" THEN @ + 1 ELSE @]
    /\ UNCHANGED serving

\* Accept fails for good: Serve closes the listener and returns the error.
AcceptFails ==
    /\ Alive /\ srv.gor = "serving" /\ ~srv.inShutdown
    /\ srv' = [srv EXCEPT !.gor = "returned", !.err = "accept tcp: too many open files",
                           !.listener = "closed"]
    /\ UNCHANGED serving

\* Serve finds the server shut down: it returns ErrServerClosed.
ServeSeesShutdown ==
    /\ Alive /\ srv.gor = "serving" /\ srv.inShutdown
    /\ srv' = [srv EXCEPT !.gor = "returned", !.err = "ErrServerClosed"]
    /\ UNCHANGED serving

\* if err != nil && err != http.ErrServerClosed
GoroutineChecks ==
    /\ Alive /\ srv.gor = "returned"
    /\ srv' = [srv EXCEPT !.gor = IF IsServerError(srv.err) THEN "sending" ELSE "done"]
    /\ UNCHANGED serving

\* serverErrors <- err: goes through when the buffer has room.
GoroutineSends ==
    /\ Alive /\ srv.gor = "sending"
    /\ Len(srv.serverErrors) < ServerErrorsCap
    /\ srv' = [srv EXCEPT !.gor = "done", !.serverErrors = Append(@, srv.err)]
    /\ UNCHANGED serving

\* SIGINT or SIGTERM: signal.NotifyContext cancels ctx.
SignalArrives ==
    /\ Alive /\ ~srv.signal
    /\ srv' = [srv EXCEPT !.signal = TRUE]
    /\ UNCHANGED serving

\* case err := <-serverErrors: log.Fatalf, and the process exits.
MainReceivesError ==
    /\ srv.main = "select" /\ srv.serverErrors # <<>>
    /\ srv' = [srv EXCEPT !.main = "fatal", !.fatal = Head(srv.serverErrors),
                           !.serverErrors = Tail(@), !.cut = srv.active]
    /\ UNCHANGED serving

\* case <-ctx.Done(): server.Shutdown(shutdownCtx) begins: the server takes
\* no more connections and its listener is closed.
MainShutsDown ==
    /\ srv.main = "select" /\ srv.signal
    /\ srv' = [srv EXCEPT !.main = "shutdown", !.inShutdown = TRUE, !.timer = "running",
                           !.listener = IF @ = "open" THEN "closed" ELSE @]
    /\ UNCHANGED serving

\* cfg.HTTPServer.ShutdownTimeout passes.
TimeoutExpires ==
    /\ srv.main = "shutdown" /\ srv.timer = "running"
    /\ srv' = [srv EXCEPT !.timer = "expired"]
    /\ UNCHANGED serving

\* Shutdown finds no request being served and returns nil; main returns.
ShutdownReturns ==
    /\ srv.main = "shutdown" /\ srv.active = 0
    /\ srv' = [srv EXCEPT !.main = "exited"]
    /\ UNCHANGED serving

\* Shutdown returns shutdownCtx's error; server.Close() cuts what is still
\* served, and main returns.
ShutdownTimesOut ==
    /\ srv.main = "shutdown" /\ srv.timer = "expired"
    /\ srv' = [srv EXCEPT !.main = "exited", !.closed = TRUE, !.cut = srv.active]
    /\ UNCHANGED serving

-----------------------------------------------------------------------------
(* The inputs drawn.                                                       *)

NameSamples == {<<>>, <<"a", "l">>}

EmailSamples ==
    { <<>>,
      <<"a", "l">>,
      <<"a", "@">>,
      <<"@", "x", ".", "y">>,
      <<"a", "@", "x">>,
      <<"a", "@", "x", ".", "y">>,
      <<"a", ".", "@", "x", ".", "y">> }

AgeSamples == {0 - 1, 0, MinAge - 1, MinAge, MaxAge, MaxAge + 1}

ClientIds == {7}

Bodies == BrokenBodies \cup ObjectBodies(ClientIds, NameSamples, EmailSamples, AgeSamples)

\* One valid body: the rows of the long table all come from it.
PageBodies ==
    {[kind |-> "object", id |-> <<>>, name |-> <<<<"a", "l">>>>,
      email |-> <<<<"a", "@", "x", ".", "y">>>>, age |-> <<MinAge>>]}

IdChars == {"-", "1", "2", "x"}

PathIds == StringsUpTo(IdChars, MaxIdLen)

QueryChars == {"-", "+", "0", "1", "x"}

PageQueryChars == {"0", "1", "2"}

\* A decimal too long for int: three digits for every ten bits.
HugeNumber == [i \in 1..((IntSize \div 10) * 3 + 2) |-> "1"]

QueryStrings == StringsUpTo(QueryChars, MaxQLen) \cup {HugeNumber}

\* The query with the given page and limit values, each <<>> (absent) or <<s>>.
MakeQuery(page, limit) ==
    [k \in {x \in {"page"} : page # <<>>} \cup {x \in {"limit"} : limit # <<>>} |->
        IF k = "page" THEN page[1] ELSE limit[1]]

-----------------------------------------------------------------------------
(* Specifications.                                                         *)

\* NewSqlite on a new database file: the table is created empty. (A file kept
\* from an earlier run would start the table with that run's rows.)
Init ==
    /\ students = <<>>
    /\ seq = 0
    /\ req = NoRequest
    /\ resp = NoResponse
    /\ params = NoParams
    /\ calls = NoCalls
    /\ storeErr = NilError
    /\ issued = <<>>
    /\ acked = {}
    /\ inflight = [p \in Procs |-> Idle]
    /\ srv = ServerStarts
    /\ crawl = NoCrawl
    /\ hist = NoHistory

\* The three handlers over a short table and every kind of body.
Next ==
    \/ \E body \in Bodies, fault \in CreateFaults :
           NewStudentHandler(body, fault, MaxStudents) /\ UNCHANGED others
    \/ \E id \in PathIds, fault \in GetFaults : GetStudentHandler(id, fault) /\ UNCHANGED others
    \/ \E page, limit \in Opt(StringsUpTo(PageQueryChars, 1)), fault \in ListFaults :
           ListStudentsHandler(MakeQuery(page, limit), fault) /\ UNCHANGED others
    \/ EndRequest /\ UNCHANGED others

Spec == Init /\ [][Next]_vars

\* The resolver: one of the two values over every string up to MaxQLen, the
\* other over the strings of one character.
NextParse ==
    \/ \E page \in Opt(QueryStrings), limit \in Opt(StringsUpTo(QueryChars, 1)) :
           ResolveOnly(MakeQuery(page, limit)) /\ UNCHANGED others
    \/ \E page \in Opt(StringsUpTo(QueryChars, 1)), limit \in Opt(QueryStrings) :
           ResolveOnly(MakeQuery(page, limit)) /\ UNCHANGED others
    \/ EndRequest /\ UNCHANGED others

SpecParse == Init /\ [][NextParse]_vars

\* The handlers over a long table: every row from the one body of PageBodies,
\* every INSERT reporting its id.
NextPage ==
    \/ \E body \in PageBodies, fault \in CreateFaults \ {"lastid"} :
           NewStudentHandler(body, fault, MaxRows) /\ UNCHANGED others
    \/ \E id \in StringsUpTo(PageQueryChars, 1), fault \in GetFaults :
           GetStudentHandler(id, fault) /\ UNCHANGED others
    \/ \E page \in Opt(StringsUpTo(PageQueryChars, MaxPageNoLen)),
          limit \in Opt(StringsUpTo(PageQueryChars, MaxPageQLen)),
          fault \in ListFaults :
           ListStudentsHandler(MakeQuery(page, limit), fault) /\ UNCHANGED others
    \/ EndRequest /\ UNCHANGED others

SpecPage == Init /\ [][NextPage]_vars

\* A number as a client writes it in a query.
RECURSIVE Itoa(_)
Itoa(n) == IF n < 10 THEN <<Digits[n + 1]>> ELSE Itoa(n \div 10) \o <<Digits[(n % 10) + 1]>>

\* A client reads the table page after page with one limit, from page 1 to
\* two pages beyond the last; a Create in between makes it start again.
NextCrawl ==
    \/ \E body \in PageBodies :
           /\ NewStudentHandler(body, "none", MaxCrawlRows)
           /\ crawl' = NoCrawl
           /\ UNCHANGED <<inflight, srv, hist>>
    \/ \E limit \in 1..MaxCrawlLimit :
           /\ crawl.limit \in {0, limit}
           /\ crawl.next <= TotalPages(Len(students), limit) + 2
           /\ ListStudentsHandler(MakeQuery(<<Itoa(crawl.next)>>, <<Itoa(limit)>>), "none")
           /\ crawl' = CrawlAfter(limit, crawl.next, resp')
           /\ UNCHANGED <<inflight, srv, hist>>
    \/ /\ req = NoRequest /\ crawl # NoCrawl
       /\ crawl' = NoCrawl
       /\ UNCHANGED <<students, seq, req, resp, params, calls, storeErr, issued, acked,
                      inflight, srv, hist>>
    \/ EndRequest /\ UNCHANGED others

SpecCrawl == Init /\ [][NextCrawl]_vars

\* Two valid bodies, so that concurrent Creates may carry the same or
\* different students.
ConcBodies ==
    {[kind |-> "object", id |-> <<>>, name |-> <<<<"a", "l">>>>,
      email |-> <<<<"a", "@", "x", ".", "y">>>>, age |-> <<a>>] : a \in {MinAge, MaxAge}}

\* The ids asked for: every id the table may hold and one beyond.
HistIds == {Itoa(i) : i \in 1..MaxHistRows + 1}

\* Create, Get and List in any order, with what Get and List answered kept.
NextHist ==
    \/ \E body \in ConcBodies, fault \in CreateFaults :
           NewStudentHandler(body, fault, MaxHistRows) /\ UNCHANGED others
    \/ \E id \in HistIds, fault \in GetFaults :
           /\ GetStudentHandler(id, fault)
           /\ hist' = ServedAfter(resp')
           /\ UNCHANGED <<inflight, srv, crawl>>
    \/ \E fault \in ListFaults :
           /\ ListStudentsHandler(MakeQuery(<<>>, <<>>), fault)
           /\ hist' = ReportedAfter(resp')
           /\ UNCHANGED <<inflight, srv, crawl>>
    \/ EndRequest /\ UNCHANGED others

SpecHist == Init /\ [][NextHist]_vars

\* Page numbers up to the largest int: the last page whose offset fits with
\* limit 100, the next one, the first whose offset passes 2^IntSize, MaxInt.
WrapPages ==
    {1, 2, MaxInt \div MaxLimit + 1, MaxInt \div MaxLimit + 2,
     2 * (MaxInt \div MaxLimit) + 2, MaxInt}

WrapLimits == {1, 2, MaxLimit}

\* The list handler on page numbers up to the largest int.
NextWrap ==
    \/ \E body \in PageBodies :
           NewStudentHandler(body, "none", MaxWrapRows) /\ UNCHANGED others
    \/ \E page \in WrapPages, limit \in WrapLimits :
           /\ ListStudentsHandler(MakeQuery(<<Itoa(page)>>, <<Itoa(limit)>>), "none")
           /\ UNCHANGED others
    \/ EndRequest /\ UNCHANGED others

SpecWrap == Init /\ [][NextWrap]_vars

\* main, the server goroutine, the requests in flight, the signal and the
\* shutdown timeout.
NextShutdown ==
    \/ \E bound \in BOOLEAN : ListenAndServe(bound)
    \/ AcceptRequest
    \/ RequestCompletes
    \/ AcceptFails
    \/ ServeSeesShutdown
    \/ GoroutineChecks
    \/ GoroutineSends
    \/ SignalArrives
    \/ MainReceivesError
    \/ MainShutsDown
    \/ TimeoutExpires
    \/ ShutdownReturns
    \/ ShutdownTimesOut

SpecShutdown == Init /\ [][NextShutdown]_vars

\* The lists asked for next to the Creates: the first page and the second.
ConcQueries == {MakeQuery(<<Itoa(1)>>, <<Itoa(2)>>), MakeQuery(<<Itoa(2)>>, <<Itoa(1)>>)}

\* The client that lists; every client creates.
Lister == CHOOSE p \in Procs : \A q \in Procs : p <= q

\* The handlers of concurrent requests, step by step in any order.
NextConc ==
    \/ \E p \in Procs, body \in ConcBodies : CreateArrives(p, body) /\ UNCHANGED <<sequential, srv, crawl, hist>>
    \/ \E p \in Procs : CreatePrepares(p) /\ UNCHANGED <<sequential, srv, crawl, hist>>
    \/ \E p \in Procs : CreateExecs(p) /\ UNCHANGED <<sequential, srv, crawl, hist>>
    \/ \E p \in Procs : CreateReadsId(p) /\ UNCHANGED <<sequential, srv, crawl, hist>>
    \/ \E p \in Procs : CreateResponds(p) /\ UNCHANGED <<sequential, srv, crawl, hist>>
    \/ \E p \in {Lister}, query \in ConcQueries : ListArrives(p, query) /\ UNCHANGED <<sequential, srv, crawl, hist>>
    \/ \E p \in Procs : ListReads(p) /\ UNCHANGED <<sequential, srv, crawl, hist>>
    \/ \E p \in Procs : ListCounts(p) /\ UNCHANGED <<sequential, srv, crawl, hist>>
    \/ \E p \in Procs : ListResponds(p) /\ UNCHANGED <<sequential, srv, crawl, hist>>
    \/ \E p \in Procs : RequestEnds(p) /\ UNCHANGED <<sequential, srv, crawl, hist>>

SpecConc == Init /\ [][NextConc]_vars

-----------------------------------------------------------------------------
(* What the claims are stated with: the request as the client sent it, read *)
(* without the program's own parsers and validators.                        *)

\* The samples of EmailSamples that are email addresses.
GoodEmails == { <<"a", "@", "x", ".", "y">> }

\* A Create body that is a JSON object and meets every constraint of Student.
GoodBody(body) ==
    /\ body.kind = "object"
    /\ body.name # <<>> /\ body.name[1] # <<>>
    /\ body.email # <<>> /\ body.email[1] \in GoodEmails
    /\ body.age # <<>> /\ body.age[1] >= 18 /\ body.age[1] <= 100

\* The number a run of digits spells (for runs of at most nine digits).
DecimalValue(ds) ==
    LET pow[k \in 0..Len(ds)] == IF k = 0 THEN 1 ELSE 10 * pow[k - 1]
        sum[k \in 0..Len(ds)] ==
            IF k = 0 THEN 0 ELSE sum[k - 1] + DigitVal(ds[k]) * pow[Len(ds) - k]
    IN  sum[Len(ds)]

\* The id a path segment spells, for the segments that are plain digits.
PlainId(id) == DecimalValue(id)

IsPlainId(id) == id # <<>> /\ \A i \in 1..Len(id) : IsDigit(id[i])

\* A query value as a number: a sign or none, then digits and nothing else.
Unsigned(s) == IF s # <<>> /\ s[1] \in {"-", "+"} THEN Tail(s) ELSE s

IsNumber(s) == Unsigned(s) # <<>> /\ \A i \in 1..Len(Unsigned(s)) : IsDigit(Unsigned(s)[i])

\* Its digits from the first that is not 0: none when the number is zero.
RECURSIVE Significant(_)
Significant(ds) == IF ds # <<>> /\ ds[1] = "0" THEN Significant(Tail(ds)) ELSE ds

IsPositiveNumber(s) == IsNumber(s) /\ s[1] # "-" /\ Significant(Unsigned(s)) # <<>>

\* Nine digits always fit Go's int; eleven never fit the int of IntSize bits.
FitsInt(s) == Len(Significant(Unsigned(s))) <= 9

ExceedsInt(s) == Len(Significant(Unsigned(s))) >= 11

NumberValue(s) == DecimalValue(Significant(Unsigned(s)))

\* The number is above 100, whatever its length.
Above100(s) ==
    \/ Len(Significant(Unsigned(s))) > 3
    \/ Len(Significant(Unsigned(s))) = 3 /\ NumberValue(s) > 100

Given(key) == key \in DOMAIN req.query

ListAnswered == req.op = "list" /\ resp.status = 200

HealthyGet == req.op = "get" /\ req.fault = "none"

-----------------------------------------------------------------------------
(* C1. Round trip: once a Create was answered 201 with id i for (name,     *)
(* email, age), every GetStudentByID(i) that the database serves without a *)
(* fault is answered 200 with the Student of id i and that name, email and *)
(* age, whatever requests were served in between.                          *)
C1_RoundTrip ==
    \A a \in acked :
        (HealthyGet /\ IsPlainId(req.id) /\ PlainId(req.id) = a.id)
            => /\ resp.status = 200
               /\ resp.body = [id |-> a.id, name |-> a.name, email |-> a.email, age |-> a.age]

\* A Get of the first student, served after a second one was created.
C1_Witness ==
    /\ HealthyGet /\ req.id = <<"1">>
    /\ Cardinality(acked) = 2
    /\ resp.status = 200

(* C2. Every stored student has a positive id, no two stored students      *)
(* share an id, and no id was assigned twice, after any run of successful  *)
(* and failed Creates.                                                     *)
C2_IdsPositiveUniqueNeverReused ==
    /\ \A i \in 1..Len(students) : students[i].id > 0
    /\ \A i, j \in 1..Len(students) : i # j => students[i].id # students[j].id
    /\ \A i, j \in 1..Len(issued) : i # j => issued[i] # issued[j]
    /\ \A a, b \in acked : a.id = b.id => a = b
    /\ \A a \in acked : a.id > 0

\* A failed Create served when two students are stored.
C2_Witness ==
    /\ Len(students) = 2
    /\ req.op = "create" /\ resp.status = 500

(* C3. Create runs decode, validate, storage create, respond, and the      *)
(* first stage that fails decides the answer: an empty body gives 400 with *)
(* message "request body is empty", any other decode failure 400, a        *)
(* validation failure 400, a storage failure 500; storage create is never  *)
(* invoked on a 400, and only when every stage succeeds the answer is 201  *)
(* with the id storage returned.                                           *)
C3_CreatePipeline ==
    req.op = "create" =>
        /\ req.body.kind = "empty" =>
              /\ resp.status = 400
              /\ resp.body = [error |-> "invalid request body", status |-> "Error",
                              message |-> "request body is empty"]
        /\ req.body.kind \in {"malformed", "mistyped"} =>
              /\ resp.status = 400
              /\ resp.body.error = "invalid request body"
              /\ resp.body.message # "request body is empty"
        /\ (req.body.kind = "object" /\ ~GoodBody(req.body)) =>
              /\ resp.status = 400
              /\ resp.body.error = "validation errors"
        /\ (GoodBody(req.body) /\ req.fault # "none") =>
              /\ resp.status = 500
              /\ resp.body.error = "error creating student"
        /\ (GoodBody(req.body) /\ req.fault = "none") =>
              /\ resp.status = 201
              /\ resp.body = [id |-> issued[Len(issued)]]
        /\ resp.status = 400 => calls.create = 0
        /\ resp.status \in {201, 500} => calls.create = 1

\* A body that fails validation, sent when a student is already stored.
C3_Witness ==
    /\ req.op = "create" /\ req.body.kind = "object"
    /\ resp.status = 400 /\ resp.body.error = "validation errors"
    /\ calls.create = 0
    /\ Len(students) = 1

(* C4. A Create whose age is below 18 or above 100 (0, absent and negative *)
(* included) is answered with a 400 validation failure and storage is not  *)
(* invoked; with an age in 18..100, a non-empty name and a valid email,    *)
(* validation passes and storage is invoked.                               *)
C4_AgeRange ==
    (req.op = "create" /\ req.body.kind = "object") =>
        LET age == IF req.body.age = <<>> THEN 0 ELSE req.body.age[1]
        IN  /\ (age < 18 \/ age > 100) =>
                  /\ resp.status = 400
                  /\ resp.body.error = "validation errors"
                  /\ calls.create = 0
            /\ (/\ age >= 18 /\ age <= 100
                /\ req.body.name # <<>> /\ req.body.name[1] # <<>>
                /\ req.body.email # <<>> /\ req.body.email[1] \in GoodEmails) =>
                  /\ resp.status \in {201, 500}
                  /\ calls.create = 1

\* Age 101 refused when students of age 18 and of age 100 are stored.
C4_Witness ==
    /\ req.op = "create" /\ req.body.kind = "object"
    /\ req.body.age = <<101>> /\ resp.status = 400 /\ calls.create = 0
    /\ \E i, j \in 1..Len(students) : students[i].age = 18 /\ students[j].age = 100

\* The messages of a validation failure in which the email's format failed.
EmailFormatMessages ==
    { pre \o "Email is not a valid email" \o post :
        pre \in {"", "Name is required; "},
        post \in {"", "; Age is required", "; Age must be greater than 18",
                  "; Age must be less than 100"} }

(* C5. A Create whose email is not empty and is not an email address is    *)
(* answered with a 400 validation failure whose message names the email    *)
(* field with "is not a valid email", and storage is not invoked.          *)
C5_InvalidEmail ==
    (/\ req.op = "create" /\ req.body.kind = "object"
     /\ req.body.email # <<>> /\ req.body.email[1] # <<>>
     /\ req.body.email[1] \notin GoodEmails) =>
        /\ resp.status = 400
        /\ resp.body.error = "validation errors"
        /\ resp.body.message \in EmailFormatMessages
        /\ calls.create = 0

\* An email without a dot in its domain, in a body that is valid otherwise.
C5_Witness ==
    /\ req.op = "create" /\ req.body.kind = "object"
    /\ req.body.email = << <<"a", "@", "x">> >>
    /\ resp.status = 400
    /\ resp.body.message = "Email is not a valid email"

(* C6. A GetStudentByID of an id that no INSERT ever assigned, served      *)
(* without a database fault, is NotFound to the gateway and answered 404   *)
(* with error "student not found", never 500.                              *)
C6_NeverCreatedIs404 ==
    (/\ HealthyGet
     /\ ParseInt(req.id).err = "nil"
     /\ \A i \in 1..Len(issued) : issued[i] # ParseInt(req.id).n) =>
        /\ resp.status = 404
        /\ resp.body = [error |-> "student not found", status |-> "Error",
                        message |-> "student not found"]
        /\ calls.get = 1

\* Id 2 asked for when only id 1 is stored.
C6_Witness ==
    /\ HealthyGet /\ req.id = <<"2">>
    /\ Len(students) = 1
    /\ resp.status = 404

(* C7. A list answered for the resolved (page, limit) over a table of N   *)
(* students carries as data the students ranked (page-1)*limit+1 to        *)
(* min(page*limit, N) in ascending id order, which is creation order: it   *)
(* has min(limit, max(0, N-(page-1)*limit)) items, and total_items is N.   *)
(* With N = 25, page 2 and limit 10: items 11 to 20, total_pages 3,        *)
(* has_next and has_prev.                                                  *)
C7_PageOfData ==
    ListAnswered =>
        LET N     == Len(students)
            page  == params.Page
            limit == params.Limit
            skip  == (page - 1) * limit
            rest  == IF N - skip > 0 THEN N - skip ELSE 0
            data  == resp.body.data
        IN  /\ Len(data) = IF limit < rest THEN limit ELSE rest
            /\ \A k \in 1..Len(data) :
                  /\ data[k].id = issued[skip + k]
                  /\ \E i \in 1..N :
                        /\ students[i].id = issued[skip + k]
                        /\ data[k] = [id |-> students[i].id, name |-> students[i].name,
                                      email |-> students[i].email, age |-> students[i].age]
            /\ \A k \in 1..(Len(data) - 1) : data[k].id < data[k + 1].id
            /\ resp.body.total_items = N
            /\ (N = 25 /\ page = 2 /\ limit = 10) =>
                  /\ [k \in 1..Len(data) |-> data[k].id] = [k \in 1..10 |-> 10 + k]
                  /\ resp.body.total_pages = 3
                  /\ resp.body.has_next /\ resp.body.has_prev

\* Page 2 of 25 students, ten to the page.
C7_Witness ==
    /\ ListAnswered
    /\ Len(students) = 25 /\ params = [Page |-> 2, Limit |-> 10]
    /\ Len(resp.body.data) = 10

(* C8. A list answered carries the resolved page and limit, total_pages =  *)
(* ceil(total_items / limit) (0 when total_items is 0), has_next = (page < *)
(* total_pages) and has_prev = (page > 1).                                 *)
C8_PageMetadata ==
    ListAnswered =>
        LET b == resp.body
        IN  /\ b.page = params.Page /\ b.limit = params.Limit
            /\ b.total_pages * b.limit >= b.total_items
            /\ (b.total_pages - 1) * b.limit < b.total_items
            /\ b.total_items = 0 => b.total_pages = 0
            /\ b.has_next = (b.page < b.total_pages)
            /\ b.has_prev = (b.page > 1)

\* A last page that is not full, with pages before and after the one asked for.
C8_Witness ==
    /\ ListAnswered
    /\ resp.body.total_items % resp.body.limit # 0
    /\ resp.body.total_pages > 2
    /\ resp.body.has_next /\ resp.body.has_prev

(* C9. A page value that is absent, not a number, zero or negative         *)
(* resolves to page 1; a page value that parses as a positive integer      *)
(* resolves to that integer.                                               *)
C9_PageResolution ==
    req.op = "resolve" =>
        /\ ~Given("page") => params.Page = 1
        /\ Given("page") =>
              LET s == req.query["page"]
              IN  /\ ~IsNumber(s) => params.Page = 1
                  /\ (IsNumber(s) /\ ~IsPositiveNumber(s)) => params.Page = 1
                  /\ (IsPositiveNumber(s) /\ FitsInt(s)) => params.Page = NumberValue(s)

\* page=-1 resolved to 1.
C9_Witness ==
    /\ req.op = "resolve" /\ Given("page")
    /\ req.query["page"] = <<"-", "1">>
    /\ params.Page = 1

(* C10, as claimed. Every limit value that is an integer above 100         *)
(* resolves to 100, and every one in 1..100 to itself.                     *)
C10_AnyLimitAbove100Is100 ==
    (req.op = "resolve" /\ Given("limit") /\ IsPositiveNumber(req.query["limit"])) =>
        LET s == req.query["limit"]
        IN  /\ Above100(s) => params.Limit = 100
            /\ ~Above100(s) => params.Limit = NumberValue(s)

(* C10, amended. Every limit value that is an integer above 100 and fits   *)
(* Go's int resolves to 100, every one in 1..100 to itself; an integer too *)
(* large for int does not parse and resolves to the default, 20.           *)
C10_ParsedLimitAbove100Is100 ==
    (req.op = "resolve" /\ Given("limit") /\ IsPositiveNumber(req.query["limit"])) =>
        LET s == req.query["limit"]
        IN  /\ (Above100(s) /\ FitsInt(s)) => params.Limit = 100
            /\ ExceedsInt(s) => params.Limit = 20
            /\ ~Above100(s) => params.Limit = NumberValue(s)

\* limit=101 resolved to 100.
C10_Witness ==
    /\ req.op = "resolve" /\ Given("limit")
    /\ req.query["limit"] = <<"1", "0", "1">>
    /\ params.Limit = 100

(* C11. A limit value that is absent, or is given and is not an integer    *)
(* (empty, a bare sign, letters, digits mixed with anything else),         *)
(* resolves to exactly 20.                                                 *)
C11_UnparsedLimitIs20 ==
    req.op = "resolve" =>
        /\ ~Given("limit") => params.Limit = 20
        /\ (Given("limit") /\ ~IsNumber(req.query["limit"])) => params.Limit = 20

\* limit=1x resolved to 20.
C11_Witness ==
    /\ req.op = "resolve" /\ Given("limit")
    /\ req.query["limit"] = <<"1", "x">>
    /\ params.Limit = 20

(* C12, as claimed. A limit value that is an integer below 1 (zero or      *)
(* negative) resolves to 1.                                                *)
C12_LimitBelow1Is1 ==
    (/\ req.op = "resolve" /\ Given("limit")
     /\ IsNumber(req.query["limit"]) /\ ~IsPositiveNumber(req.query["limit"])) =>
        params.Limit = 1

(* C12, amended. A limit value that is an integer below 1 (zero or         *)
(* negative) is not raised to 1: it resolves to the default, 20, like a    *)
(* value that is no integer; only a positive integer replaces the default. *)
C12_LimitBelow1IsDefault ==
    (/\ req.op = "resolve" /\ Given("limit")
     /\ IsNumber(req.query["limit"]) /\ ~IsPositiveNumber(req.query["limit"])) =>
        params.Limit = 20

\* limit=-1 resolved to 20.
C12_Witness ==
    /\ req.op = "resolve" /\ Given("limit")
    /\ req.query["limit"] = <<"-", "1">>
    /\ params.Limit = 20

(* C13. The resolver is total: whatever the page and limit values (absent, *)
(* empty, not numbers, negative, zero, too large for int), it returns      *)
(* PaginationParams with page >= 1 and 1 <= limit <= 100.                  *)
C13_ResolverTotal ==
    req.op = "resolve" =>
        /\ DOMAIN params = {"Page", "Limit"}
        /\ params.Page \in Nat /\ params.Page >= 1
        /\ params.Limit \in Nat /\ params.Limit >= 1 /\ params.Limit <= 100

\* A page too large for int with limit=0: resolved to page 1, limit 20.
C13_Witness ==
    /\ req.op = "resolve" /\ Given("page") /\ Given("limit")
    /\ req.query["page"] = HugeNumber /\ req.query["limit"] = <<"0">>
    /\ params = [Page |-> 1, Limit |-> 20]

(* C14. Create is not idempotent: every Create answered 201 adds exactly   *)
(* one row to the table, with the (name, email, age) of the request and an *)
(* id that no row stored before it has, and keeps the rows stored before;  *)
(* so two successful Creates of identical (name, email, age) leave two     *)
(* rows with different ids.                                                *)
C14_CreateNotIdempotent ==
    [][(req'.op = "create" /\ resp'.status = 201) =>
          /\ Len(students') = Len(students) + 1
          /\ SubSeq(students', 1, Len(students)) = students
          /\ LET row == students'[Len(students')]
             IN  /\ row.id = resp'.body.id
                 /\ \A i \in 1..Len(students) : students[i].id # row.id
                 /\ row.name = req'.body.name[1]
                 /\ row.email = req'.body.email[1]
                 /\ row.age = req'.body.age[1]]_vars

\* The second of two successful Creates of the same name, email and age.
C14_Witness ==
    /\ req.op = "create" /\ resp.status = 201
    /\ Len(students) = 2
    /\ students[1].id # students[2].id
    /\ [students[1] EXCEPT !.id = 0] = [students[2] EXCEPT !.id = 0]
    /\ Cardinality(acked) = 2

\* The four domain kinds of internal/storage.
DomainKinds == {ErrNotFound, ErrDuplicate, ErrInvalidData, ErrDatabase}

(* C15. Every error a Storage method returns is, by errors.Is, one of      *)
(* NotFound, Duplicate, InvalidData and DatabaseError, and every failure   *)
(* of CreateStudent (prepare, exec or last-insert-id) is a DatabaseError   *)
(* whose text carries the underlying failure.                              *)
C15_GatewayErrorsAreDomainKinds ==
    /\ storeErr.nil \/ \E kind \in DomainKinds : ErrorsIs(storeErr, kind)
    /\ (req.op = "create" /\ calls.create = 1 /\ req.fault # "none") =>
          /\ ErrorsIs(storeErr, ErrDatabase)
          /\ storeErr.text # ErrDatabase.text

(* C16. GetStudent returns NotFound only when no row has the id asked for, *)
(* and always when the lookup runs without a fault and no row has it; any  *)
(* fault during the lookup is returned as DatabaseError and answered 500;  *)
(* a row that exists, looked up without a fault, is answered 200 with its  *)
(* id, name, email and age.                                                *)
C16_GetErrorMapping ==
    (req.op = "get" /\ calls.get = 1) =>
        LET id   == ParseInt(req.id).n
            rows == {i \in 1..Len(students) : students[i].id = id}
        IN  /\ ErrorsIs(storeErr, ErrNotFound) => rows = {}
            /\ (req.fault = "none" /\ rows = {}) =>
                  /\ ErrorsIs(storeErr, ErrNotFound)
                  /\ resp.status = 404
            /\ req.fault # "none" =>
                  /\ ErrorsIs(storeErr, ErrDatabase)
                  /\ ~ErrorsIs(storeErr, ErrNotFound)
                  /\ resp.status = 500
                  /\ resp.body.error = "internal server error"
            /\ (req.fault = "none" /\ rows # {}) =>
                  /\ storeErr.nil
                  /\ resp.status = 200
                  /\ \E i \in rows :
                        resp.body = [id |-> students[i].id, name |-> students[i].name,
                                     email |-> students[i].email, age |-> students[i].age]

\* A scan fault on the lookup of a student that is stored.
C16_Witness ==
    /\ req.op = "get" /\ req.fault = "scan" /\ req.id = <<"1">>
    /\ Len(students) = 2
    /\ resp.status = 500
    /\ ErrorsIs(storeErr, ErrDatabase)

(* C17. A list that the database serves without a fault never fails for    *)
(* want of rows: on an empty table, and for a page beyond the last one     *)
(* ((page-1)*limit >= total_items), Storage returns no error (NotFound     *)
(* least of all) and the answer is 200 with empty data and the true        *)
(* total_items.                                                            *)
C17_EmptyListIsNoError ==
    (req.op = "list" /\ req.fault = "none") =>
        /\ ~ErrorsIs(storeErr, ErrNotFound)
        /\ resp.status # 404
        /\ (Len(students) = 0 \/ (params.Page - 1) * params.Limit >= Len(students)) =>
              /\ storeErr.nil
              /\ resp.status = 200
              /\ resp.body.data = <<>>
              /\ resp.body.total_items = Len(students)

\* Page 2 of a table whose rows all fit page 1.
C17_Witness ==
    /\ req.op = "list" /\ req.fault = "none"
    /\ Len(students) = 3 /\ params.Page = 2 /\ params.Limit >= 3
    /\ resp.status = 200 /\ resp.body.data = <<>>

\* What a client's body violates, field by field: the first constraint of
\* each field that the value fails, as the phrase of its message ("" when
\* the field is in order).
NameViolation(body) ==
    IF body.name = <<>> \/ body.name[1] = <<>> THEN "is required" ELSE ""

EmailViolation(body) ==
    IF body.email = <<>> \/ body.email[1] = <<>> THEN "is required"
    ELSE IF body.email[1] \notin GoodEmails THEN "is not a valid email"
    ELSE ""

AgeViolation(body) ==
    IF body.age = <<>> \/ body.age[1] = 0 THEN "is required"
    ELSE IF body.age[1] < 18 THEN "must be greater than 18"
    ELSE IF body.age[1] > 100 THEN "must be less than 100"
    ELSE ""

\* The entries of the message, one per violated field, each field under the
\* name given for it.
Entries(body, nameField, emailField, ageField) ==
    LET entry(field, phrase) == IF phrase = "" THEN <<>> ELSE << field \o " " \o phrase >>
    IN  entry(nameField, NameViolation(body))
            \o entry(emailField, EmailViolation(body))
            \o entry(ageField, AgeViolation(body))

\* The entries joined by "; ", in every order.
JoinedInAnyOrder(entries) ==
    LET n == Len(entries)
        orders == {f \in [1..n -> 1..n] : \A i, j \in 1..n : f[i] = f[j] => i = j}
    IN  {Join([i \in 1..n |-> entries[f[i]]], "; ") : f \in orders}

(* C18, as claimed. A body that fails validation is answered 400 with one  *)
(* message: one entry per violated field, for that field's first failing   *)
(* constraint, joined by "; ", the fields named name, email and age; a     *)
(* body with a name, no email and age 17 gives "email is required" and     *)
(* "age must be greater than 18".                                          *)
C18_MessagePerFieldLowercase ==
    (req.op = "create" /\ req.body.kind = "object" /\ ~GoodBody(req.body)) =>
        /\ resp.status = 400
        /\ resp.body.message \in JoinedInAnyOrder(Entries(req.body, "name", "email", "age"))

(* C18, amended. The same, with the fields named as the Student struct     *)
(* spells them, Name, Email and Age, and the entries in that order: a body *)
(* with a name, no email and age 17 gives                                  *)
(* "Email is required; Age must be greater than 18".                       *)
C18_MessagePerField ==
    (req.op = "create" /\ req.body.kind = "object" /\ ~GoodBody(req.body)) =>
        /\ resp.status = 400
        /\ resp.body.error = "validation errors"
        /\ resp.body.message = Join(Entries(req.body, "Name", "Email", "Age"), "; ")

\* A name, no email and age 17.
C18_Witness ==
    /\ req.op = "create" /\ req.body.kind = "object"
    /\ req.body.name = << <<"a", "l">> >> /\ req.body.email = <<>> /\ req.body.age = <<17>>
    /\ resp.status = 400
    /\ resp.body.message = "Email is required; Age must be greater than 18"

\* The requests that fail: a Create whose body is not a valid Student or
\* whose INSERT meets a fault, a Get whose id is no integer, is not stored, or
\* whose lookup meets a fault, a list whose queries meet a fault.
FailurePath ==
    \/ req.op = "create" /\ (~GoodBody(req.body) \/ req.fault # "none")
    \/ req.op = "get" /\ \/ req.fault # "none"
                         \/ ~IsNumber(req.id)
                         \/ \A i \in 1..Len(students) : students[i].id # ParseInt(req.id).n
    \/ req.op = "list" /\ req.fault # "none"

\* A JSON error envelope: error, status = "Error" and message, none empty.
IsErrorEnvelope(body) ==
    /\ DOMAIN body = {"error", "status", "message"}
    /\ body.status = "Error"
    /\ body.error # "" /\ body.message # ""

(* C19. Every request to Create, GetByID or ListPaginated that fails is    *)
(* answered with a status of 400, 404 or 500 and a JSON error envelope     *)
(* with error, status = "Error" and message; no failure is answered with   *)
(* an empty body or a 2xx status, and every answer that is not 2xx is such *)
(* an envelope.                                                            *)
C19_FailuresCarryEnvelope ==
    req.op \in {"create", "get", "list"} =>
        /\ FailurePath =>
              /\ resp.status \in {400, 404, 500}
              /\ IsErrorEnvelope(resp.body)
        /\ resp.status \notin {200, 201} =>
              /\ resp.status \in {400, 404, 500}
              /\ IsErrorEnvelope(resp.body)

\* A Create that the database fails after validation passed.
C19_Witness ==
    /\ req.op = "create" /\ req.fault = "exec" /\ GoodBody(req.body)
    /\ resp.status = 500
    /\ resp.body = [error |-> "error creating student", status |-> "Error",
                    message |-> "exec: disk I/O error"]

(* C20. No handler writes more than once: a Create invokes CreateStudent   *)
(* at most once, adds at most one row and changes no row stored before,    *)
(* and adds none when it answers 400; GetStudentByID and the list leave    *)
(* the table and its id counter as they were, whatever they answer.        *)
C20_AtMostOneWrite ==
    [][/\ calls'.create <= 1
       /\ req'.op \in {"get", "list"} =>
             /\ students' = students /\ seq' = seq
             /\ calls'.create = 0
       /\ req'.op = "create" =>
             /\ Len(students') \in {Len(students), Len(students) + 1}
             /\ SubSeq(students', 1, Len(students)) = students
             /\ resp'.status = 400 => students' = students]_vars

\* A lookup answered 404 with two students stored.
C20_Witness ==
    /\ req.op = "get" /\ resp.status = 404 /\ calls.get = 1 /\ calls.create = 0
    /\ Len(students) = 2

\* The Creates that have answered and not ended yet.
Answered == {p \in Procs : inflight[p].op = "create" /\ inflight[p].pc = "done"}

\* The Creates whose INSERT ran and whose answer is not written yet.
Inserted == {p \in Procs : inflight[p].op = "create" /\ inflight[p].pc \in {"lastid", "respond"}}

(* C21. Valid Creates served concurrently, their storage steps interleaved *)
(* in any order: each INSERT that ran left one row and none is lost, each  *)
(* answer is a 201 with the id of the row its own request stored, and the  *)
(* ids answered are pairwise distinct.                                     *)
C21_ConcurrentCreates ==
    /\ Len(students) = Len(issued)
    /\ \A i, j \in 1..Len(students) : i # j => students[i].id # students[j].id
    /\ Len(students) = Cardinality(acked) + Cardinality(Inserted)
    /\ \A p \in Answered :
          /\ inflight[p].resp.status = 201
          /\ inflight[p].resp.body.id = inflight[p].own
          /\ \E i \in 1..Len(students) :
                /\ students[i].id = inflight[p].resp.body.id
                /\ students[i].name = inflight[p].student.Name
                /\ students[i].email = inflight[p].student.Email
                /\ students[i].age = inflight[p].student.Age
    /\ \A p, q \in Answered : p # q => inflight[p].resp.body.id # inflight[q].resp.body.id

\* Two Creates answered side by side, the one whose INSERT ran first with
\* the smaller id.
C21_Witness ==
    /\ Answered = {1, 2}
    /\ inflight[1].student = inflight[2].student
    /\ inflight[1].resp.body.id = 2 /\ inflight[2].resp.body.id = 1
    /\ Len(students) = 2

C24_HasNextAndPrevBeyondLast ==
    ListAnswered =>
        LET N == Len(students)
            b == resp.body
        IN  /\ b.has_next <=> (b.page * b.limit < N)
            /\ b.has_next =>
                  GetStudentsList(students, b.page * b.limit, b.limit, "none").students # <<>>
            /\ ~b.has_next => (b.page - 1) * b.limit + Len(b.data) >= N
            /\ b.page > b.total_pages => (~b.has_next /\ b.has_prev)

(* C24, amended. The same, but for page > total_pages has_prev is true     *)
(* only when some student is stored: on an empty table total_pages is 0,   *)
(* page 1 is already beyond it, and has_prev = (page > 1) is false.        *)
C24_HasNext ==
    ListAnswered =>
        LET N == Len(students)
            b == resp.body
        IN  /\ b.has_next <=> (b.page * b.limit < N)
            /\ b.has_next =>
                  GetStudentsList(students, b.page * b.limit, b.limit, "none").students # <<>>
            /\ ~b.has_next => (b.page - 1) * b.limit + Len(b.data) >= N
            /\ b.page > b.total_pages =>
                  /\ ~b.has_next
                  /\ b.has_prev <=> (b.page > 1)
                  /\ N > 0 => b.has_prev

\* The last page of a table that fills its pages exactly: 20 students, ten
\* to the page, page 2.
C24_Witness ==
    /\ ListAnswered
    /\ Len(students) = 20 /\ resp.body.page = 2 /\ resp.body.limit = 10
    /\ Len(resp.body.data) = 10
    /\ ~resp.body.has_next /\ resp.body.has_prev

(* C25. With the table unchanged and one limit L, the data of pages 1, 2,  *)
(* ... read one after the other is, after k pages, the first min(N, k*L)   *)
(* students in ascending id order: once total_pages pages are read it      *)
(* holds every stored student exactly once, none skipped and none          *)
(* repeated, and every page after total_pages is empty.                    *)
C25_PagesCoverTable ==
    crawl.limit > 0 =>
        LET N    == Len(students)
            L    == crawl.limit
            k    == crawl.next - 1
            last == (N + L - 1) \div L
            read == crawl.data
        IN  /\ Len(read) = IF k * L < N THEN k * L ELSE N
            /\ \A i, j \in 1..Len(read) : i < j => read[i].id < read[j].id
            /\ \A i \in 1..Len(read) :
                  \E r \in 1..N :
                      read[i] = [id |-> students[r].id, name |-> students[r].name,
                                 email |-> students[r].email, age |-> students[r].age]
            /\ k >= last =>
                  \A r \in 1..N :
                      Cardinality({i \in 1..Len(read) : read[i].id = students[r].id}) = 1
            /\ (ListAnswered /\ resp.body.page > last) => resp.body.data = <<>>

\* Five students read two to the page: three pages hold them all, and the
\* fourth page, read too, is empty.
C25_Witness ==
    /\ Len(students) = 5 /\ crawl.limit = 2 /\ crawl.next = 5
    /\ Len(crawl.data) = 5
    /\ ListAnswered /\ resp.body.page = 4 /\ resp.body.data = <<>>

(* C26. For every PaginationParams the resolver returns (page any positive *)
(* int, limit in [1, 100]) the offset (page-1)*limit handed to storage is  *)
(* non-negative and is the exact product: it never wraps around.           *)
C26_OffsetNeverWraps ==
    (req.op = "list" /\ calls.list = 1) =>
        /\ params.Page >= 1 /\ params.Limit \in 1..MaxLimit
        /\ Offset(params) >= 0
        /\ Offset(params) \div params.Limit = params.Page - 1
        /\ Offset(params) % params.Limit = 0

\* The list requests whose response is written.
Listed == {p \in Procs : inflight[p].op = "list" /\ inflight[p].pc = "done"}

(* C27. The list handler reads the list and then the count in two storage  *)
(* calls; with Creates running in between in any order, every response has *)
(* len(data) <= limit and len(data) <= total_items, and total_items is the *)
(* number of students stored when the count ran, which is at least the     *)
(* number stored when the data was read.                                    *)
C27_ListThenCount ==
    \A p \in Listed :
        LET f == inflight[p]
        IN  /\ f.resp.status = 200
            /\ Len(f.resp.body.data) <= f.resp.body.limit
            /\ Len(f.resp.body.data) <= f.resp.body.total_items
            /\ f.resp.body.total_items = f.atCount
            /\ f.atCount >= f.atList
            /\ f.atCount <= Len(students)

\* A Create stored its row between the two reads of a list: one student
\* in data, two counted.
C27_Witness ==
    \E p \in Listed :
        /\ inflight[p].atList = 1 /\ inflight[p].atCount = 2
        /\ Len(inflight[p].resp.body.data) = 1
        /\ inflight[p].resp.body.total_items = 2

(* C28. Stored records are permanent and never change: once a Get of id i  *)
(* was answered with a student s, every later Get of i on a healthy store, *)
(* after any Creates, Gets and Lists, is answered 200 with the same s; and *)
(* the total_items of a list is never below the one reported before.       *)
C28_RecordsPermanent ==
    [][/\ (req = NoRequest /\ req'.op = "get" /\ req'.fault = "none" /\ IsPlainId(req'.id)) =>
             \A s \in hist.served :
                 s.student.id = PlainId(req'.id) =>
                     resp'.status = 200 /\ resp'.body = s.student
       /\ (req = NoRequest /\ req'.op = "list" /\ resp'.status = 200) =>
             resp'.body.total_items >= hist.total]_vars

\* A student first served when the table held one row is served again,
\* the same, when it holds two; the list before the second Create counted
\* one.
C28_Witness ==
    /\ Len(students) = 2 /\ hist.total = 1
    /\ HealthyGet /\ resp.status = 200
    /\ \E s \in hist.served : s.rows = 1 /\ s.student = resp.body

(* C29. An id in the Create body has no influence: whatever id the body    *)
(* carries, the row stored holds the body's name, email and age under the  *)
(* next id of the table, and the id answered with 201 is the id of that    *)
(* row, assigned by storage, never the one the client sent.                *)
C29_BodyIdIgnored ==
    [][(req = NoRequest /\ req'.op = "create" /\ req'.body.kind = "object") =>
          LET b   == req'.body
              n   == Len(students)
              row == students'[n + 1]
          IN  /\ students' # students =>
                    /\ Len(students') = n + 1
                    /\ SubSeq(students', 1, n) = students
                    /\ row = [id |-> seq + 1, name |-> b.name[1], email |-> b.email[1],
                              age |-> b.age[1]]
                    /\ \A i \in 1..n : students[i].id < row.id
              /\ resp'.status = 201 =>
                    /\ students' # students
                    /\ resp'.body = [id |-> row.id]
                    /\ b.id # <<>> => resp'.body.id # b.id[1]]_vars

\* A Create whose body carried an id of the client's own is answered 201
\* with the id storage gave the row.
C29_Witness ==
    /\ req.op = "create" /\ req.body.kind = "object" /\ req.body.id # <<>>
    /\ resp.status = 201
    /\ students # <<>> /\ students[Len(students)].id = resp.body.id
    /\ resp.body.id # req.body.id[1]

====
